---- MODULE Spec2Model ----
(***************************************************************************)
(* Write-behind message buffer of the chat server: MessageBuffer,          *)
(* CircuitBreaker and the bulk-insert executor (core/message_buffer.py),   *)
(* driven by the send_message socket handler, the periodic flush task and  *)
(* the final flush of the lifespan shutdown (main.py).                     *)
(*                                                                         *)
(* Tasks are asyncio coroutines on one event loop: a step of the model is  *)
(* the code a task runs between two suspension points (a wait for the      *)
(* lock, an insert_many in flight, a sleep).  Records are named by their   *)
(* arrival number 1, 2, ... in add_message.                                *)
(***************************************************************************)
EXTENDS Integers, Sequences, FiniteSets, TLC

\* ------------------------------------------------------------------ bounds
MaxRecords  == 10     \* send_message requests accepted, store healthy
MaxRequests == 7      \* send_message requests accepted, store failing
MaxFaults   == 3      \* insert_many calls the store environment may fail
MaxCount    == 2      \* the failure statistics saturate here
TimeStep    == 60     \* seconds added by one step of the clock
MaxChat     == 1      \* messages sent while the mutation handlers are watched

\* ------------------------------------------------------- program constants
FailureThreshold == 3     \* CircuitBreaker(failure_threshold=3, ...)
ResetTimeout     == 60    \* CircuitBreaker(..., reset_timeout=60)
InitBatchSize    == 10    \* MessageBuffer(batch_size=10, ...)
MinBatchSize     == 10    \* max(10, self.batch_size // 2)
MaxBatchSize     == 50    \* min(50, self.batch_size + 5)
GrowStep         == 5     \* min(50, self.batch_size + 5)
GrowAfter        == 5     \* self.stats["successful_flushes"] > 5
ChunkSize        == 5     \* chunk_size = 5
MaxTries         == 2     \* backoff.on_exception(..., max_tries=2)

Handlers == {"h1", "h2"}
Tasks    == Handlers \cup {"sched", "shutdown"}
None     == "none"
NoTime   == -1
NoDoc    == [ type |-> "none" ]
NoReq    == [ op |-> "none" ]
AgeCap   == ResetTimeout + TimeStep

\* The users with a session, the one group, its member_ids and its created_by
\* when the server starts, the content a message is sent with and the contents
\* an edit may carry.
Users        == {"A", "B", "C"}
Groups       == {"G"}
Members      == {"A", "C"}
Creator      == "A"
SentContent  == "c0"
EditContents == {"c1", "c2"}

VARIABLES
    messages,          \* MessageBuffer.messages: the pending list (record ids)
    batch_size,        \* MessageBuffer.batch_size
    stats,             \* MessageBuffer.stats
    cb,                \* MessageBuffer.circuit_breaker
    lock_holder,       \* MessageBuffer.lock: the task that holds it, or None
    lock_waiters,      \* MessageBuffer.lock: FIFO of the tasks waiting for it
    pc,                \* where each task is suspended
    messages_to_flush, \* flush(): the snapshot of each task's flush in flight
    tries,             \* backoff: number of the executor attempt of each task
    chunk_i,           \* _perform_bulk_insert: loop index i of each task
    stored,            \* the messages collection: ids inserted
    broadcast,         \* records emitted to their rooms
    faults,            \* insert_many calls failed by the store so far
    last_flush,        \* MessageBuffer.last_flush: 0 is the construction time,
                       \* n the time of the n-th successful flush
    doc,               \* the message dict of each record, as send_message
                       \* built it and as the handlers updated it in the store
    emitted,           \* the events the last handler step emitted
    req,               \* the request each socket / REST handler is serving
    groups,            \* the groups collection: the document of each group id
    in_room            \* the users whose session is in the room of each group

\* the state of the message handlers other than send_message
chat == << doc, emitted, req, groups, in_room >>

vars == << messages, batch_size, stats, cb, lock_holder, lock_waiters, pc,
           messages_to_flush, tries, chunk_i, stored, broadcast, faults,
           last_flush, doc, emitted, req, groups, in_room >>

\* ----------------------------------------------------------------- helpers
Min(a, b) == IF a < b THEN a ELSE b
Max(a, b) == IF a > b THEN a ELSE b
Range(s)  == { s[i] : i \in 1..Len(s) }
InSeq(x, s) == \E i \in 1..Len(s) : s[i] = x
Inc(x)    == IF x < MaxCount THEN x + 1 ELSE x
Age(a)    == IF a = NoTime THEN NoTime ELSE Min(a + TimeStep, AgeCap)

\* ---------------------------------------------------------- CircuitBreaker
\* cb.since_failure is datetime.now(UTC) - last_failure_time, NoTime for None.
\* (mutant) the breaker opens one failure early
RecordFailureEarly(b) ==
    [ failure_count |-> b.failure_count + 1,
      since_failure |-> 0,
      is_open       |-> IF b.failure_count + 1 >= FailureThreshold - 1
                        THEN TRUE ELSE b.is_open ]

RecordFailure(b) ==
    [ failure_count |-> b.failure_count + 1,
      since_failure |-> 0,
      is_open       |-> IF b.failure_count + 1 >= FailureThreshold
                        THEN TRUE ELSE b.is_open ]

RecordSuccess(b) ==
    [ b EXCEPT !.failure_count = 0, !.is_open = FALSE ]

CooldownElapsed(b) == b.since_failure > ResetTimeout

\* (mutant) an OPEN breaker never lets a caller through again
CanProceedClosedOnly(b) == ~b.is_open

\* (mutant) the breaker lets every caller through
CanProceedAlways(b) == TRUE

\* the value can_proceed() returns
CanProceed(b) == (~b.is_open) \/ CooldownElapsed(b)

\* (mutant) can_proceed() closes the breaker and keeps its count
AfterCanProceedKeepsCount(b) ==
    IF b.is_open /\ CooldownElapsed(b)
    THEN [ b EXCEPT !.is_open = FALSE ]
    ELSE b

\* the breaker after a call of can_proceed()
AfterCanProceed(b) ==
    IF b.is_open /\ CooldownElapsed(b)
    THEN [ b EXCEPT !.failure_count = 0, !.is_open = FALSE ]
    ELSE b

\* ----------------------------------------------------------- MessageBuffer
\* (mutant) halving without the floor
ShrinkNoFloor(bs) == bs \div 2

\* (mutant) growth without the ceiling
GrowNoCap(bs) == bs + GrowStep

ShrinkBatch(bs) == Max(MinBatchSize, bs \div 2)
GrowBatch(bs)   == Min(MaxBatchSize, bs + GrowStep)

\* (mutant) the size test is off by one
ShouldFlushEarly(len, bs) == len + 1 >= bs

\* add_message: the size test that triggers flush
ShouldFlush(len, bs) == len >= bs

\* (mutant) the slice runs one record into the next chunk
ChunkOverlaps(s, i) == SubSeq(s, i + 1, Min(i + ChunkSize + 1, Len(s)))

\* messages_to_flush[i:i + chunk_size]
Chunk(s, i) == SubSeq(s, i + 1, Min(i + ChunkSize, Len(s)))

\* (mutant) the failure path puts the snapshot back newest first
RequeueReversed(pending, snapshot) ==
    pending \o [ k \in 1..Len(snapshot) |-> snapshot[Len(snapshot) + 1 - k] ]

\* (mutant) the failure path forgets the snapshot
RequeueDrops(pending, snapshot) == pending

\* self.messages.extend(messages_to_flush)
Requeue(pending, snapshot) == pending \o snapshot

\* (mutant) the growth starts one successful flush early
ShouldGrowAtFive(st) == st.successful_flushes >= GrowAfter

\* start_periodic_flush: the test of its batch-size recovery
ShouldGrow(st) == st.successful_flushes > GrowAfter

\* (mutant) backoff retries whatever the error class is
RetriesAnyError(err, n) == n < MaxTries

\* backoff.on_exception: an error of class err raised by try number n is
\* followed by another try
Retries(err, n) == err = "transient" /\ n < MaxTries

\* ------------------------------------------------------------ asyncio.Lock
\* (mutant) nobody waits for the lock
LockFreeAlways == TRUE

LockFree == lock_holder = None /\ lock_waiters = << >>

\* `async with self.lock` left: the first waiter is woken and owns the lock
Release ==
    IF lock_waiters = << >>
    THEN /\ lock_holder' = None
         /\ lock_waiters' = lock_waiters
    ELSE /\ lock_holder' = Head(lock_waiters)
         /\ lock_waiters' = Tail(lock_waiters)

\* task t is inside the critical section it asked for
HasLock(t) == lock_holder = t /\ ~InSeq(t, lock_waiters)

Alive == pc["shutdown"] # "done"

\* -------------------------------------------------------------------- Init
Init ==
    /\ messages = << >>
    /\ batch_size = InitBatchSize
    /\ stats = [ total_messages |-> 0, successful_flushes |-> 0,
                 failed_flushes |-> 0, retry_count |-> 0,
                 circuit_breaker_trips |-> 0 ]
    /\ cb = [ failure_count |-> 0, since_failure |-> NoTime, is_open |-> FALSE ]
    /\ lock_holder = None
    /\ lock_waiters = << >>
    /\ pc = [ t \in Tasks |-> IF t \in Handlers THEN "idle"
                              ELSE IF t = "sched" THEN "sleep" ELSE "running" ]
    /\ messages_to_flush = [ t \in Tasks |-> << >> ]
    /\ tries = [ t \in Tasks |-> 0 ]
    /\ chunk_i = [ t \in Tasks |-> 0 ]
    /\ stored = {}
    /\ broadcast = {}
    /\ faults = 0
    /\ last_flush = 0
    /\ doc = [ i \in 1..MaxChat |-> NoDoc ]
    /\ emitted = {}
    /\ req = [ h \in Handlers |-> NoReq ]
    /\ groups = [ g \in Groups |->
                   [ type |-> "group", member_ids |-> Members,
                     created_by |-> Creator ] ]
    /\ in_room = [ g \in Groups |-> {} ]

\* --------------------------------------------------------- end of a flush
\* flush() returns to its caller t with the buffer fields st, ms and bs: the
\* lock is released and the caller goes on.  The scheduler then runs its
\* batch-size recovery and sleeps, the shutdown closes the database and the
\* process ends, add_message returns to send_message.
EndFlush(t, st, ms, bs) ==
    /\ stats' = st
    /\ messages' = ms
    /\ batch_size' = IF t = "sched" /\ ShouldGrow(st)
                     THEN GrowBatch(bs) ELSE bs
    /\ messages_to_flush' = [ messages_to_flush EXCEPT ![t] = << >> ]
    /\ tries' = [ tries EXCEPT ![t] = 0 ]
    /\ chunk_i' = [ chunk_i EXCEPT ![t] = 0 ]
    /\ pc' = [ pc EXCEPT ![t] = IF t = "sched" THEN "sleep"
                                ELSE IF t = "shutdown" THEN "done"
                                ELSE "idle" ]
    /\ Release

\* One call of _perform_bulk_insert by the backoff wrapper, try number n, for
\* the snapshot snap while the pending list is ms and the breaker is b: it
\* asks can_proceed() and either issues the first insert_many or returns False
\* to flush, which counts a failed flush and restores the snapshot.
StartAttempt(t, snap, ms, n, b) ==
    /\ cb' = AfterCanProceed(b)
    /\ IF CanProceed(b)
       THEN /\ messages_to_flush' = [ messages_to_flush EXCEPT ![t] = snap ]
            /\ messages' = ms
            /\ tries' = [ tries EXCEPT ![t] = n ]
            /\ chunk_i' = [ chunk_i EXCEPT ![t] = 0 ]
            /\ pc' = [ pc EXCEPT ![t] = "insert" ]
            /\ UNCHANGED << batch_size, stats >>
            /\ IF HasLock(t) THEN UNCHANGED << lock_holder, lock_waiters >>
               ELSE /\ lock_holder' = t
                    /\ lock_waiters' = lock_waiters
       ELSE EndFlush(t, [ stats EXCEPT !.failed_flushes = Inc(@) ],
                     Requeue(ms, snap), batch_size)

\* (mutant) flush copies the pending list and does not clear it
FlushBodyNoClear(t, b) ==
    IF messages = << >>
    THEN /\ cb' = b
         /\ EndFlush(t, stats, messages, batch_size)
    ELSE StartAttempt(t, messages, messages, 1, b)

\* (mutant) flush without its empty test
FlushBodyNoEmptyTest(t, b) == StartAttempt(t, messages, << >>, 1, b)

\* flush() run by task t from the moment it owns the lock, the breaker being
\* b: empty test, copy and clear, first executor attempt.
FlushBody(t, b) ==
    IF messages = << >>
    THEN /\ cb' = b
         /\ EndFlush(t, stats, messages, batch_size)
    ELSE StartAttempt(t, messages, << >>, 1, b)

\* flush() called by task t: it runs at once when the lock is free, otherwise
\* the task waits in the lock's queue.
CallFlush(t, b) ==
    IF LockFree
    THEN FlushBody(t, b)
    ELSE /\ cb' = b
         /\ pc' = [ pc EXCEPT ![t] = "flush" ]
         /\ lock_waiters' = Append(lock_waiters, t)
         /\ UNCHANGED << messages, batch_size, stats, lock_holder,
                         messages_to_flush, tries, chunk_i >>

\* ------------------------------------------------------------ send_message
\* add_message inside `async with self.lock`, then the emit of send_message.
\* When the size test asks for a flush, flush() waits for the lock that this
\* very task holds (asyncio.Lock is not reentrant).
AddBody(h) ==
    LET id == stats.total_messages + 1
        ms == Append(messages, id)
    IN /\ messages' = ms
       /\ stats' = [ stats EXCEPT !.total_messages = id ]
       /\ IF ShouldFlush(Len(ms), batch_size)
          THEN /\ pc' = [ pc EXCEPT ![h] = "flush" ]
               /\ lock_holder' = h
               /\ lock_waiters' = Append(lock_waiters, h)
               /\ broadcast' = broadcast
          ELSE /\ pc' = [ pc EXCEPT ![h] = "idle" ]
               /\ broadcast' = broadcast \cup { id }
               /\ IF HasLock(h) THEN Release
                  ELSE UNCHANGED << lock_holder, lock_waiters >>

\* A send_message event arrives at an idle handler; limit bounds the events the
\* environment sends.  Without an authenticated session, or for a group message
\* of a non-member, the handler returns.
SendMessage(h, limit) ==
    /\ Alive
    /\ pc["shutdown"] = "running"
    /\ pc[h] = "idle"
    /\ \E auth \in BOOLEAN, k \in {"direct", "group"}, member \in BOOLEAN :
         IF auth /\ (k = "group" => member)
         THEN /\ stats.total_messages
                   + Cardinality({ g \in Handlers : pc[g] = "add" }) < limit
              /\ IF LockFree
                 THEN AddBody(h)
                 ELSE /\ pc' = [ pc EXCEPT ![h] = "add" ]
                      /\ lock_waiters' = Append(lock_waiters, h)
                      /\ UNCHANGED << messages, stats, lock_holder, broadcast >>
              /\ UNCHANGED << batch_size, cb, messages_to_flush, tries,
                              chunk_i, stored, faults >>
         ELSE UNCHANGED vars
    /\ UNCHANGED << last_flush, chat >>

\* a handler that waited for the lock in add_message now owns it
AddMessage(h) ==
    /\ Alive
    /\ pc[h] = "add"
    /\ HasLock(h)
    /\ AddBody(h)
    /\ UNCHANGED << batch_size, cb, messages_to_flush, tries, chunk_i, stored,
                    faults, last_flush, chat >>

\* ---------------------------------------------------- start_periodic_flush
\* one wake-up of the loop: can_proceed(), then flush()
SchedTick ==
    /\ Alive
    /\ pc["sched"] = "sleep"
    /\ IF CanProceed(cb)
       THEN CallFlush("sched", AfterCanProceed(cb))
       ELSE /\ cb' = AfterCanProceed(cb)
            /\ UNCHANGED << messages, batch_size, stats, lock_holder,
                            lock_waiters, pc, messages_to_flush, tries,
                            chunk_i >>
    /\ UNCHANGED << stored, broadcast, faults, last_flush, chat >>

\* ------------------------------------------------------- lifespan shutdown
\* the final flush of the lifespan
ShutdownBegin ==
    /\ pc["shutdown"] = "running"
    /\ CallFlush("shutdown", cb)
    /\ UNCHANGED << stored, broadcast, faults, last_flush, chat >>

\* ------------------------------------------------------------------- flush
\* a task that waited for the lock in flush() now owns it
FlushEnter(t) ==
    /\ Alive
    /\ pc[t] = "flush"
    /\ HasLock(t)
    /\ FlushBody(t, cb)
    /\ UNCHANGED << stored, broadcast, faults, last_flush, chat >>

\* the backoff sleep is over: _perform_bulk_insert is called again
Attempt(t) ==
    /\ Alive
    /\ pc[t] = "attempt"
    /\ StartAttempt(t, messages_to_flush[t], messages, tries[t], cb)
    /\ UNCHANGED << stored, broadcast, faults, last_flush, chat >>

\* the attempt of task t raised an error of class err
Raise(t, err) ==
    LET st == [ stats EXCEPT !.circuit_breaker_trips = Inc(@) ]
    IN /\ cb' = RecordFailure(cb)
       /\ \/ \* backoff sleeps and will call _perform_bulk_insert again
             /\ Retries(err, tries[t])
             /\ tries' = [ tries EXCEPT ![t] = @ + 1 ]
             /\ pc' = [ pc EXCEPT ![t] = "attempt" ]
             /\ stats' = st
             /\ UNCHANGED << messages, batch_size, lock_holder, lock_waiters,
                             messages_to_flush, chunk_i >>
          \/ \* the error reaches flush: no try left, max_time used up, or an
             \* error class that backoff does not retry
             /\ EndFlush(t, [ st EXCEPT !.failed_flushes = Inc(@) ],
                         Requeue(messages, messages_to_flush[t]),
                         ShrinkBatch(batch_size))

\* the chunk of the insert_many(chunk, ordered=False) that task t has in flight
CurChunk(t) == Range(Chunk(messages_to_flush[t], chunk_i[t]))
LastChunk(t) == chunk_i[t] + ChunkSize >= Len(messages_to_flush[t])

\* insert_many comes back from a store that took the call: every document of
\* the chunk whose _id is new is inserted; a document inserted before keeps
\* its _id (insert_many wrote it into the dict) and makes the call raise
\* BulkWriteError, an OperationFailure.
InsertOk(t) ==
    /\ Alive
    /\ pc[t] = "insert"
    /\ stored' = stored \cup CurChunk(t)
    /\ IF CurChunk(t) \cap stored # {}
       THEN Raise(t, "transient")
       ELSE IF ~LastChunk(t)
       THEN /\ chunk_i' = [ chunk_i EXCEPT ![t] = @ + ChunkSize ]
            /\ UNCHANGED << messages, batch_size, stats, cb, lock_holder,
                            lock_waiters, pc, messages_to_flush, tries >>
       ELSE /\ cb' = RecordSuccess(cb)
            /\ EndFlush(t, [ stats EXCEPT !.successful_flushes = @ + 1 ],
                        messages, batch_size)
    /\ last_flush' = IF CurChunk(t) \cap stored = {} /\ LastChunk(t)
                     THEN stats.successful_flushes + 1
                     ELSE last_flush
    /\ UNCHANGED << broadcast, faults, chat >>

\* insert_many raises: the store is down or slow (a class backoff retries) or
\* rejects the call with another error; nothing of the chunk is inserted
InsertFail(t) ==
    /\ Alive
    /\ pc[t] = "insert"
    /\ faults < MaxFaults
    /\ faults' = faults + 1
    /\ \E err \in {"transient", "other"} : Raise(t, err)
    /\ UNCHANGED << stored, broadcast, last_flush, chat >>

\* ------------------------------------------------------------------- clock
\* TimeStep seconds pass; a backoff sleep (max_time=10) is shorter than that
Tick ==
    /\ Alive
    /\ \A t \in Tasks : pc[t] # "attempt"
    /\ cb.since_failure # NoTime
    /\ cb.since_failure < AgeCap
    /\ cb' = [ cb EXCEPT !.since_failure = Age(@) ]
    /\ UNCHANGED << messages, batch_size, stats, lock_holder, lock_waiters,
                    pc, messages_to_flush, tries, chunk_i, stored, broadcast,
                    faults, last_flush, chat >>

\* -------------------------------------------------------------------- Next
\* the server with a store that may fail
Next ==
    \/ \E h \in Handlers : SendMessage(h, MaxRequests)
    \/ \E h \in Handlers : AddMessage(h)
    \/ SchedTick
    \/ ShutdownBegin
    \/ \E t \in Tasks : FlushEnter(t)
    \/ \E t \in Tasks : Attempt(t)
    \/ \E t \in Tasks : InsertOk(t)
    \/ \E t \in Tasks : InsertFail(t)
    \/ Tick

Spec == Init /\ [][Next]_vars

\* the server with a healthy store: no insert_many fails
NextHealthy ==
    \/ \E h \in Handlers : SendMessage(h, MaxRecords)
    \/ \E h \in Handlers : AddMessage(h)
    \/ SchedTick
    \/ ShutdownBegin
    \/ \E t \in Tasks : FlushEnter(t)
    \/ \E t \in Tasks : InsertOk(t)

SpecHealthy == Init /\ [][NextHealthy]_vars

\* The event loop runs every task that is ready, an insert_many in flight
\* comes back and time passes; clients need not send and the server need not
\* shut down.
Fairness ==
    /\ \A h \in Handlers : WF_vars(AddMessage(h))
    /\ WF_vars(SchedTick)
    /\ \A t \in Tasks : WF_vars(FlushEnter(t))
    /\ \A t \in Tasks : WF_vars(InsertOk(t))

FairHealthy == SpecHealthy /\ Fairness

\* The same event loop with a store that may fail: the backoff sleep ends,
\* the clock advances, and a store that takes the call answers it.
FairSpec ==
    /\ Spec
    /\ Fairness
    /\ \A t \in Tasks : WF_vars(Attempt(t))
    /\ WF_vars(Tick)

\* ------------------------------------------------ messages and their rooms
UserRoom(u)  == << "user", u >>
GroupRoom(g) == << "group", g >>
SidRoom(h)   == << "sid", h >>

\* sio.emit(ev, {"type": type, ...}, room=r) for every room r of rooms
Emit(ev, type, rooms, id) ==
    { [ ev |-> ev, type |-> type, room |-> r, id |-> id ] : r \in rooms }

\* read_by and deleted_for are lists of user ids: the number of occurrences
\* of each user in the list
EmptyList == [ u \in Users |-> 0 ]
InList(u, l) == l[u] > 0

\* (mutant) the update writes back a list that holds the new id only
AddToSetOverwrite(l, u) == [ EmptyList EXCEPT ![u] = 1 ]

\* (mutant) $push instead of $addToSet
AddToSetPush(l, u) == [ l EXCEPT ![u] = @ + 1 ]

\* {"$addToSet": {field: u}}
AddToSet(l, u) == IF InList(u, l) THEN l ELSE [ l EXCEPT ![u] = 1 ]

\* Message.id of record n: the str(ObjectId()) that the model's default
\* factory makes and the emitted payload carries as "id".  The _id under
\* which insert_many stores record n is another ObjectId, n in this model.
MessageId(n) == 0 - n

\* the dict send_message hands to add_message (message.dict() and the fields
\* the handler adds); to is a user id or a group id
NewMessage(u, type, to) ==
    [ type         |-> type,
      from_user_id |-> u,
      to_user_id   |-> IF type = "group" THEN None ELSE to,
      group_id     |-> IF type = "group" THEN to ELSE None,
      content      |-> SentContent,
      status       |-> "sent",
      read_by      |-> IF type = "group" THEN AddToSet(EmptyList, u)
                       ELSE EmptyList,
      deleted_for  |-> EmptyList ]

\* (mutant) the direct message is emitted to the recipient only
SendRoomsRecipientOnly(m) ==
    IF m.type = "group" THEN { GroupRoom(m.group_id) }
    ELSE { UserRoom(m.to_user_id) }

\* the rooms send_message emits the message to
SendRooms(m) ==
    IF m.type = "group" THEN { GroupRoom(m.group_id) }
    ELSE { UserRoom(m.to_user_id), UserRoom(m.from_user_id) }

\* groups_collection.find_one({"_id": group_id}), NoDoc if none
FindGroup(group_id) == groups[group_id]

\* (mutant) the test of the group without the test of its member_ids
IsMemberOfAny(u, group) == group # NoDoc

\* `group and user_id in group["member_ids"]`
IsMember(u, group) == group # NoDoc /\ u \in group.member_ids

\* the document of record id in the messages collection, NoDoc if none
FindOne(id) == IF id \in stored THEN doc[id] ELSE NoDoc

\* the fields of a found message that a handler reads after its write
Scope(m) ==
    [ type |-> m.type, from_user_id |-> m.from_user_id,
      to_user_id |-> m.to_user_id, group_id |-> m.group_id ]

\* a handler slot takes a new event while the process is alive
Idle(h) == Alive /\ pc[h] = "idle"

\* the handler returns to its caller
Return(h) ==
    /\ pc' = [ pc EXCEPT ![h] = "idle" ]
    /\ req' = [ req EXCEPT ![h] = NoReq ]

\* what the handlers below leave alone in the buffer
buffer == << messages, batch_size, stats, cb, lock_holder, lock_waiters,
            messages_to_flush, tries, chunk_i, broadcast, faults, last_flush >>

\* ------------------------------------------------------------ send_message
\* send_message with the fields of its message: session user u (None without
\* a session), data["type"] and data["to"].  What the handler does before
\* add_message changes nothing, so the event is taken when the lock is free.
SendRequest(h, u, type, to) ==
    /\ Idle(h)
    /\ pc["shutdown"] = "running"
    /\ LockFree
    /\ stats.total_messages < MaxChat
    /\ type = "group" <=> to \in Groups
    /\ IF u = None \/ (type = "group" /\ ~IsMember(u, FindGroup(to)))
       THEN /\ emitted' = {}
            /\ UNCHANGED << messages, stats, pc, lock_holder,
                            lock_waiters, broadcast, doc >>
       ELSE LET id == stats.total_messages + 1
                m  == NewMessage(u, type, to)
            IN /\ AddBody(h)
               /\ doc' = [ doc EXCEPT ![id] = m ]
               /\ emitted' = IF id \in broadcast'
                             THEN Emit("message", "message", SendRooms(m),
                                       MessageId(id))
                             ELSE {}
    /\ UNCHANGED << batch_size, cb, messages_to_flush, tries, chunk_i, stored,
                    faults, last_flush, req, groups, in_room >>

ChatSend(h) ==
    \E u \in Users \cup {None}, type \in {"direct", "group"},
       to \in Users \cup Groups : SendRequest(h, u, type, to)

\* --------------------------------------------------------------- mark_read
\* the $set part of the update of mark_read
SetRead(d) == [ d EXCEPT !.status = "read" ]

\* the room mark_read emits the read receipt to
ReadRooms(m) ==
    IF m.type = "group" THEN { GroupRoom(m.group_id) }
    ELSE { UserRoom(m.from_user_id) }

\* mark_read up to its update_one: session user u, data["message_id"] = id
MarkReadRequest(h, u, id) ==
    /\ Idle(h)
    /\ IF u = None
       THEN UNCHANGED << pc, req, doc >>
       ELSE /\ pc' = [ pc EXCEPT ![h] = "mark_read" ]
            /\ req' = [ req EXCEPT ![h] =
                          [ op |-> "mark_read", user |-> u, id |-> id ] ]
            /\ doc' = IF id \in stored
                      THEN [ doc EXCEPT ![id] =
                               [ SetRead(@) EXCEPT
                                   !.read_by = AddToSet(@, u) ] ]
                      ELSE doc
    /\ emitted' = {}
    /\ UNCHANGED << groups, in_room, buffer, stored >>

MarkRead(h) ==
    \E u \in Users \cup {None}, id \in 1..MaxChat : MarkReadRequest(h, u, id)

\* mark_read from its find_one: the read receipt goes to the message's room
MarkReadNotify(h) ==
    /\ Alive
    /\ pc[h] = "mark_read"
    /\ LET id == req[h].id
           message == FindOne(id)
       IN emitted' = IF message # NoDoc
                     THEN Emit("message_update", "read_receipt",
                               ReadRooms(message), id)
                     ELSE {}
    /\ Return(h)
    /\ UNCHANGED << groups, in_room, buffer, stored, doc >>

\* ------------------------------------------------------------ edit_message
\* (mutant) the ownership test of edit_message is missing
MayEditAnyone(message, u) == TRUE

\* message["from_user_id"] != user_id, negated
MayEdit(message, u) == message.from_user_id = u

\* the rooms edit_message notifies
EditRooms(m) ==
    IF m.type = "group" THEN { GroupRoom(m.group_id) }
    ELSE { UserRoom(m.from_user_id), UserRoom(m.to_user_id) }

\* edit_message up to its update_one: session, find_one, ownership test
EditRequest(h, u, id, c) ==
    /\ Idle(h)
    /\ LET message == FindOne(id)
       IN IF u = None \/ message = NoDoc \/ ~MayEdit(message, u)
          THEN /\ emitted' = Emit("error",
                                  IF u = None THEN "Not authenticated"
                                  ELSE IF message = NoDoc
                                  THEN "Message not found"
                                  ELSE "Not authorized to edit this message",
                                  { SidRoom(h) }, id)
               /\ UNCHANGED << pc, req >>
          ELSE /\ emitted' = {}
               /\ pc' = [ pc EXCEPT ![h] = "edit_message" ]
               /\ req' = [ req EXCEPT ![h] =
                             [ op |-> "edit_message", user |-> u, id |-> id,
                               new_content |-> c, message |-> Scope(message) ] ]
    /\ UNCHANGED << groups, in_room, buffer, stored, doc >>

EditMessage(h) ==
    \E u \in Users \cup {None}, id \in 1..MaxChat, c \in EditContents :
        EditRequest(h, u, id, c)

\* update_one({"_id": id}, {"$set": {"content": c}})
SetContent(id, c) ==
    /\ stored' = stored
    /\ doc' = IF id \in stored THEN [ doc EXCEPT ![id].content = c ] ELSE doc

\* edit_message from its update_one: the notification is sent only when the
\* update modified the document (result.modified_count > 0)
EditUpdate(h) ==
    /\ Alive
    /\ pc[h] = "edit_message"
    /\ LET id == req[h].id
           c  == req[h].new_content
           modified == id \in stored /\ doc[id].content # c
       IN /\ SetContent(id, c)
          /\ emitted' = IF modified
                        THEN Emit("message_update", "message_edit",
                                  EditRooms(req[h].message), id)
                        ELSE {}
    /\ Return(h)
    /\ UNCHANGED << groups, in_room, buffer >>

\* -------------------------------------------------- delete_message (socket)
\* (mutant) the ownership test of delete "for everyone" is missing
MayDeleteAnyone(message, u) == TRUE

\* message["from_user_id"] != user_id, negated
MayDelete(message, u) == message.from_user_id = u

\* the rooms the socket handler notifies of a deletion for everyone
DeleteRooms(m, u) ==
    IF m.type = "group" THEN { GroupRoom(m.group_id) }
    ELSE LET other_user == IF m.from_user_id = u THEN m.to_user_id
                           ELSE m.from_user_id
         IN { UserRoom(other_user), UserRoom(u) }

\* (mutant) the hidden-message notification goes to the message's rooms
HiddenRoomsScope(m, u) == DeleteRooms(m, u)

\* the room the socket handler notifies of a deletion for the caller
HiddenRooms(m, u) == { UserRoom(u) }

\* delete_one({"_id": id})
DeleteOne(id) ==
    /\ stored' = stored \ { id }
    /\ doc' = IF id \in stored THEN [ doc EXCEPT ![id] = NoDoc ] ELSE doc

\* update_one({"_id": id}, {"$addToSet": {"deleted_for": u}})
AddDeletedFor(id, u) ==
    /\ stored' = stored
    /\ doc' = IF id \in stored
              THEN [ doc EXCEPT ![id].deleted_for = AddToSet(@, u) ]
              ELSE doc

\* delete_message up to its write: session, find_one, ownership test
DeleteRequest(h, u, id, delete_for) ==
    /\ Idle(h)
    /\ LET message == FindOne(id)
       IN IF \/ u = None
             \/ message = NoDoc
             \/ delete_for = "everyone" /\ ~MayDelete(message, u)
          THEN /\ emitted' = Emit("error",
                                  IF u = None THEN "Not authenticated"
                                  ELSE IF message = NoDoc
                                  THEN "Message not found"
                                  ELSE "Not authorized to delete this message",
                                  { SidRoom(h) }, id)
               /\ UNCHANGED << pc, req >>
          ELSE /\ emitted' = {}
               /\ pc' = [ pc EXCEPT ![h] = "delete_message" ]
               /\ req' = [ req EXCEPT ![h] =
                             [ op |-> "delete_message", user |-> u,
                               id |-> id, delete_for |-> delete_for,
                               message |-> Scope(message) ] ]
    /\ UNCHANGED << groups, in_room, buffer, stored, doc >>

DeleteMessage(h) ==
    \E u \in Users \cup {None}, id \in 1..MaxChat,
       delete_for \in {"everyone", "me"} : DeleteRequest(h, u, id, delete_for)

\* delete_message from its delete_one or update_one
DeleteApply(h) ==
    /\ Alive
    /\ pc[h] = "delete_message"
    /\ LET id == req[h].id
           u  == req[h].user
           message == req[h].message
           success == Emit("success", "success", { SidRoom(h) }, id)
       IN IF req[h].delete_for = "everyone"
          THEN /\ DeleteOne(id)
               /\ emitted' = success \cup
                     Emit("message_deleted", "message_deleted",
                          DeleteRooms(message, u), id)
          ELSE /\ AddDeletedFor(id, u)
               /\ emitted' = success \cup
                     Emit("message_deleted", "message_hidden",
                          HiddenRooms(message, u), id)
    /\ Return(h)
    /\ UNCHANGED << groups, in_room, buffer >>

\* ---------------------------------------------------- delete_message (REST)
\* the rooms the REST endpoint notifies of a deletion for everyone: the user
\* room of every other member of the group, or of the other party
RestDeleteRooms(m, u) ==
    IF m.type = "group"
    THEN LET group == FindGroup(m.group_id)
         IN IF group = NoDoc THEN {}
            ELSE { UserRoom(member_id) : member_id \in group.member_ids \ { u } }
    ELSE LET other_user == IF m.from_user_id = u THEN m.to_user_id
                           ELSE m.from_user_id
         IN { UserRoom(other_user) }

\* DELETE /messages/{id}?user_id=u&delete_for=... up to its write
RestDeleteRequest(h, u, id, delete_for) ==
    /\ Idle(h)
    /\ LET message == FindOne(id)
       IN IF \/ message = NoDoc
             \/ delete_for = "everyone" /\ ~MayDelete(message, u)
          THEN /\ emitted' = Emit("response",
                                  IF message = NoDoc THEN "Message not found"
                                  ELSE "Only message sender can delete for everyone",
                                  { SidRoom(h) }, id)
               /\ UNCHANGED << pc, req >>
          ELSE /\ emitted' = {}
               /\ pc' = [ pc EXCEPT ![h] = "rest_delete" ]
               /\ req' = [ req EXCEPT ![h] =
                             [ op |-> "rest_delete", user |-> u, id |-> id,
                               delete_for |-> delete_for,
                               message |-> Scope(message) ] ]
    /\ UNCHANGED << groups, in_room, buffer, stored, doc >>

RestDelete(h) ==
    \E u \in Users, id \in 1..MaxChat, delete_for \in {"me", "everyone"} :
        RestDeleteRequest(h, u, id, delete_for)

\* the REST endpoint from its update_one or delete_one
RestDeleteApply(h) ==
    /\ Alive
    /\ pc[h] = "rest_delete"
    /\ LET id == req[h].id
           u  == req[h].user
           response == Emit("response", "ok", { SidRoom(h) }, id)
       IN IF req[h].delete_for = "me"
          THEN /\ AddDeletedFor(id, u)
               /\ emitted' = response
          ELSE /\ DeleteOne(id)
               /\ emitted' = response \cup
                     Emit("message_deleted", "message_deleted",
                          RestDeleteRooms(req[h].message, u), id)
    /\ Return(h)
    /\ UNCHANGED << groups, in_room, buffer >>

\* ------------------------------------------------------------ get_messages
\* the fields of a document that the projection of get_messages keeps
ProjectionFields == {"content", "from_user_id", "type", "status"}
Project(d) == [ f \in ProjectionFields |-> d[f] ]

\* msg.get(field, default)
Get(m, field, default) == IF field \in DOMAIN m THEN m[field] ELSE default

\* the ids the find of get_messages returns
Query(user_id, other_id, message_type) ==
    { id \in stored :
        IF message_type = "group"
        THEN doc[id].type = "group" /\ doc[id].group_id = other_id
        ELSE /\ doc[id].type = "direct"
             /\ \/ /\ doc[id].from_user_id = user_id
                    /\ doc[id].to_user_id = other_id
                \/ /\ doc[id].from_user_id = other_id
                    /\ doc[id].to_user_id = user_id }

\* unread_ids, computed from the projected documents
UnreadIds(user_id, message_type, ids) ==
    { id \in ids :
        LET msg == Project(doc[id])
        IN IF message_type = "group"
           THEN ~InList(user_id, Get(msg, "read_by", EmptyList))
           ELSE /\ Get(msg, "to_user_id", None) = user_id
                /\ Get(msg, "status", None) # "read" }

\* GET /messages/{user_id}/{other_id}?message_type=... up to its bulk_write
GetMessagesRequest(h, user_id, other_id) ==
    /\ Idle(h)
    /\ LET message_type == IF other_id \in Groups THEN "group" ELSE "direct"
           ids == Query(user_id, other_id, message_type)
           unread_ids == UnreadIds(user_id, message_type, ids)
       IN IF unread_ids = {}
          THEN /\ emitted' = UNION { Emit("response", "history",
                                          { SidRoom(h) }, id) : id \in ids }
               /\ UNCHANGED << pc, req >>
          ELSE /\ emitted' = {}
               /\ pc' = [ pc EXCEPT ![h] = "get_messages" ]
               /\ req' = [ req EXCEPT ![h] =
                             [ op |-> "get_messages", user |-> user_id,
                               message_type |-> message_type,
                               messages |-> ids,
                               unread_ids |-> unread_ids ] ]
    /\ UNCHANGED << groups, in_room, buffer, stored, doc >>

GetMessages(h) ==
    \E user_id \in Users, other_id \in Users \cup Groups :
        GetMessagesRequest(h, user_id, other_id)

\* get_messages from its bulk_write: the read status of the fetched messages
\* is updated and the history is returned
GetMessagesUpdate(h) ==
    /\ Alive
    /\ pc[h] = "get_messages"
    /\ doc' = [ id \in 1..MaxChat |->
                  IF id \in req[h].unread_ids \cap stored
                  THEN IF req[h].message_type = "group"
                       THEN [ doc[id] EXCEPT
                                !.read_by = AddToSet(@, req[h].user) ]
                       ELSE SetRead(doc[id])
                  ELSE doc[id] ]
    /\ emitted' = UNION { Emit("response", "history", { SidRoom(h) }, id) :
                            id \in req[h].messages }
    /\ Return(h)
    /\ UNCHANGED << groups, in_room, buffer, stored >>

\* -------------------------------------------- the server and its handlers
\* The handlers that read and change persisted messages, on a server with a
\* healthy store whose only flushes are the periodic ones.  hs is the set of
\* handler slots: the requests the server serves at the same time.
ChatNext(hs) ==
    \/ \E h \in hs : ChatSend(h)
    \/ SchedTick
    \/ \E t \in Tasks : InsertOk(t)
    \/ \E h \in hs : MarkRead(h)
    \/ \E h \in hs : MarkReadNotify(h)
    \/ \E h \in hs : EditMessage(h)
    \/ \E h \in hs : EditUpdate(h)
    \/ \E h \in hs : DeleteMessage(h)
    \/ \E h \in hs : DeleteApply(h)

\* mark_read, edit_message and delete_message called with the id of a live
\* "message" event as data["message_id"]
LiveIds == { MessageId(n) : n \in broadcast }

LiveMarkRead(h) ==
    \E u \in Users, id \in LiveIds : MarkReadRequest(h, u, id)

LiveEdit(h) ==
    \E u \in Users, id \in LiveIds, c \in EditContents :
        EditRequest(h, u, id, c)

LiveDelete(h) ==
    \E u \in Users, id \in LiveIds, delete_for \in {"me", "everyone"} :
        DeleteRequest(h, u, id, delete_for)

\* one socket client that takes its message ids from the history and from
\* the live events
NextLive ==
    \/ ChatNext({"h1"})
    \/ LiveMarkRead("h1")
    \/ LiveEdit("h1")
    \/ LiveDelete("h1")

SpecLive == Init /\ [][NextLive]_vars

\* one request at a time, socket and REST
NextChat ==
    \/ ChatNext({"h1"})
    \/ RestDelete("h1")
    \/ RestDeleteApply("h1")
    \/ GetMessages("h1")
    \/ GetMessagesUpdate("h1")

SpecChat == Init /\ [][NextChat]_vars

\* two socket requests at the same time
NextRace == ChatNext(Handlers)

SpecRace == Init /\ [][NextRace]_vars

\* ------------------------------------------------------------ group routes
\* an HTTP response of handler h with the given detail or message
Respond(h, detail, group_id) ==
    Emit("response", detail, { SidRoom(h) }, group_id)

\* what the group handlers leave alone
nogroup == << buffer, stored, doc, in_room >>

\* POST /group/{group_id}/{user_id}: update_one with $addToSet, no test of
\* the outcome
AddUserToGroupRequest(h, group_id, user_id) ==
    /\ Idle(h)
    /\ groups' = IF FindGroup(group_id) = NoDoc THEN groups
                 ELSE [ groups EXCEPT ![group_id].member_ids =
                                          @ \cup { user_id } ]
    /\ emitted' = Respond(h, "User added to group", group_id)
    /\ UNCHANGED << pc, req, nogroup >>

AddUserToGroup(h) ==
    \E group_id \in Groups, user_id \in Users :
        AddUserToGroupRequest(h, group_id, user_id)

\* the messages delete_group's delete_many({"type": "group", "to": group_id})
\* matches: a message document has a group_id and no field "to"
GroupMessagesTo(group_id) ==
    { id \in stored : /\ doc[id].type = "group"
                       /\ "to" \in DOMAIN doc[id]
                       /\ doc[id]["to"] = group_id }

\* DELETE /groups/{group_id}, sent by user u, up to its delete_one: the
\* handler takes the group id and nothing about who asks
DeleteGroupRequest(h, u, group_id) ==
    /\ Idle(h)
    /\ IF FindGroup(group_id) = NoDoc
       THEN /\ emitted' = Respond(h, "Group not found", group_id)
            /\ UNCHANGED << pc, req >>
       ELSE /\ emitted' = {}
            /\ pc' = [ pc EXCEPT ![h] = "delete_group" ]
            /\ req' = [ req EXCEPT ![h] =
                          [ op |-> "delete_group", user |-> u,
                            group_id |-> group_id ] ]
    /\ UNCHANGED << groups, nogroup >>

DeleteGroup(h) ==
    \E u \in Users, group_id \in Groups : DeleteGroupRequest(h, u, group_id)

\* delete_group from its delete_one: the group document, then the messages
DeleteGroupApply(h) ==
    /\ Alive
    /\ pc[h] = "delete_group"
    /\ LET group_id == req[h].group_id
       IN /\ groups' = [ groups EXCEPT ![group_id] = NoDoc ]
          /\ stored' = stored \ GroupMessagesTo(group_id)
          /\ doc' = [ id \in DOMAIN doc |->
                        IF id \in GroupMessagesTo(group_id) THEN NoDoc
                        ELSE doc[id] ]
          /\ emitted' = Respond(h, "Group deleted successfully", group_id)
    /\ Return(h)
    /\ UNCHANGED << buffer, in_room >>

\* the detail of the HTTPException remove_from_group raises before its
\* write, None if it raises none
RemoveRefused(group, user_id, admin_id) ==
    IF group = NoDoc THEN "Group not found"
    ELSE IF user_id \notin group.member_ids THEN "User is not in this group"
    ELSE IF admin_id # None /\ admin_id # group.created_by
    THEN "Only group creator can remove members"
    ELSE IF admin_id = None /\ user_id = group.created_by
    THEN "Group creator cannot leave the group"
    ELSE None

\* POST /groups/{group_id}/remove?user_id=..&admin_id=.. up to its
\* update_one; admin_id is None when the parameter is absent
RemoveRequest(h, group_id, user_id, admin_id) ==
    /\ Idle(h)
    /\ LET group == FindGroup(group_id)
           refused == RemoveRefused(group, user_id, admin_id)
       IN IF refused # None
          THEN /\ emitted' = Respond(h, refused, group_id)
               /\ UNCHANGED << pc, req >>
          ELSE /\ emitted' = {}
               /\ pc' = [ pc EXCEPT ![h] = "remove_from_group" ]
               /\ req' = [ req EXCEPT ![h] =
                             [ op |-> "remove_from_group",
                               group_id |-> group_id, user_id |-> user_id,
                               admin_id |-> IF admin_id = None THEN user_id
                                            ELSE admin_id,
                               member_ids |-> group.member_ids ] ]
    /\ UNCHANGED << groups, nogroup >>

RemoveFromGroup(h) ==
    \E group_id \in Groups, user_id \in Users, admin_id \in Users \cup {None} :
        RemoveRequest(h, group_id, user_id, admin_id)

\* remove_from_group from its update_one with $pull: the notification goes
\* to the members of the group document read before the write
RemoveApply(h) ==
    /\ Alive
    /\ pc[h] = "remove_from_group"
    /\ LET group_id == req[h].group_id
           user_id  == req[h].user_id
           modified == IsMember(user_id, FindGroup(group_id))
       IN /\ groups' = IF modified
                       THEN [ groups EXCEPT ![group_id].member_ids =
                                                @ \ { user_id } ]
                       ELSE groups
          /\ emitted' =
                IF modified
                THEN Respond(h, "Successfully removed from group", group_id)
                     \cup Emit("notification", "group_notification",
                               { UserRoom(member_id) :
                                   member_id \in req[h].member_ids \ { user_id } },
                               group_id)
                ELSE Respond(h, "Failed to remove user from group", group_id)
    /\ Return(h)
    /\ UNCHANGED nogroup

\* the group routes, two requests at a time
NextGroup ==
    \/ \E h \in Handlers : AddUserToGroup(h)
    \/ \E h \in Handlers : DeleteGroup(h)
    \/ \E h \in Handlers : DeleteGroupApply(h)
    \/ \E h \in Handlers : RemoveFromGroup(h)
    \/ \E h \in Handlers : RemoveApply(h)

SpecGroup == Init /\ [][NextGroup]_vars

\* ---------------------------------------------- join_group / leave_group
\* join_group of the session of user u (None without a user id in the
\* session) up to its enter_room
JoinGroupRequest(h, u, group_id) ==
    /\ Idle(h)
    /\ IF u = None \/ ~IsMember(u, FindGroup(group_id))
       THEN UNCHANGED << pc, req >>
       ELSE /\ pc' = [ pc EXCEPT ![h] = "join_group" ]
            /\ req' = [ req EXCEPT ![h] =
                          [ op |-> "join_group", user |-> u,
                            group_id |-> group_id ] ]
    /\ emitted' = {}
    /\ UNCHANGED << groups, nogroup >>

JoinGroup(h) ==
    \E u \in Users \cup {None}, group_id \in Groups :
        JoinGroupRequest(h, u, group_id)

\* sio.enter_room(sid, "group_<id>")
JoinGroupEnter(h) ==
    /\ Alive
    /\ pc[h] = "join_group"
    /\ in_room' = [ in_room EXCEPT ![req[h].group_id] = @ \cup { req[h].user } ]
    /\ emitted' = {}
    /\ Return(h)
    /\ UNCHANGED << groups, buffer, stored, doc >>

\* leave_group of the session of user u: sio.leave_room(sid, "group_<id>")
LeaveGroupRequest(h, u, group_id) ==
    /\ Idle(h)
    /\ in_room' = [ in_room EXCEPT ![group_id] = @ \ { u } ]
    /\ emitted' = {}
    /\ UNCHANGED << pc, req, groups, buffer, stored, doc >>

LeaveGroup(h) ==
    \E u \in Users, group_id \in Groups : LeaveGroupRequest(h, u, group_id)

\* one client at a time: sessions join and leave the room of the group,
\* members are added and removed, the group is deleted, messages are sent
NextRooms ==
    \/ DeleteGroup("h1")
    \/ DeleteGroupApply("h1")
    \/ JoinGroup("h1")
    \/ JoinGroupEnter("h1")
    \/ LeaveGroup("h1")
    \/ AddUserToGroup("h1")
    \/ RemoveFromGroup("h1")
    \/ RemoveApply("h1")
    \/ ChatSend("h1")

SpecRooms == Init /\ [][NextRooms]_vars

\* ------------------------------------------- GET /health/message-buffer
\* MessageBuffer.get_stats(): the dict it builds from the fields as they are
GetStats ==
    [ total_messages         |-> stats.total_messages,
      successful_flushes     |-> stats.successful_flushes,
      failed_flushes         |-> stats.failed_flushes,
      retry_count            |-> stats.retry_count,
      circuit_breaker_trips  |-> stats.circuit_breaker_trips,
      current_buffer_size    |-> Len(messages),
      current_batch_size     |-> batch_size,
      last_flush             |-> last_flush,
      circuit_breaker_status |-> IF cb.is_open THEN "open" ELSE "closed",
      failure_count          |-> cb.failure_count ]

\* message_buffer_health: it has no suspension point and takes no lock, so
\* the event loop runs it whenever a request comes in; h gets the response
MessageBufferHealth(h) ==
    /\ Alive
    /\ emitted' = { [ ev |-> "response", type |-> "healthy",
                      room |-> SidRoom(h), stats |-> GetStats ] }
    /\ UNCHANGED << groups, in_room, buffer, pc, stored, doc, req >>

\* the server with a healthy store and a client that polls the statistics
NextStats ==
    \/ NextHealthy
    \/ MessageBufferHealth("h1")

SpecStats == Init /\ [][NextStats]_vars


\* ------------------------------------------------------------------ claims
AddedRecords == 1..stats.total_messages

\* C1: an add_message call that makes the pending list reach batch_size runs
\* flush and returns: the call is never left waiting, inside flush, for the
\* lock that the call itself holds.
C1_AddFlushReturns ==
    \A h \in Handlers : ~(pc[h] = "flush" /\ lock_holder = h)

\* C2: with a store that does not fail and a server that keeps running, every
\* record taken by add_message is eventually inserted into the store.
C2_EventuallyStored ==
    \A i \in 1..MaxRecords : (i \in AddedRecords) ~> (i \in stored)

\* C5: every record taken by add_message for an accepted send_message is
\* eventually broadcast, whatever becomes of its persistence.
C5_EventuallyBroadcast ==
    \A i \in 1..MaxRecords : (i \in AddedRecords) ~> (i \in broadcast)

\* C3: every record that was added and has not been dropped by a successful
\* flush is in exactly one place, the pending list or the snapshot of a flush
\* in flight: it is never in both, never twice in one, and a record that is in
\* neither is in the store.
Occurrences(i) ==
    Cardinality({ k \in 1..Len(messages) : messages[k] = i })
    + Cardinality({ tk \in Tasks \X (1..MaxRecords) :
                      /\ tk[2] <= Len(messages_to_flush[tk[1]])
                      /\ messages_to_flush[tk[1]][tk[2]] = i })

C3_ExactlyOnePlace ==
    \A i \in AddedRecords :
        /\ Occurrences(i) <= 1
        /\ Occurrences(i) = 0 => i \in stored

\* a flush failed, its records were put back and are in flight again
C3_Witness ==
    \E t \in Tasks :
        /\ messages_to_flush[t] # << >>
        /\ messages = << >>
        /\ stats.failed_flushes > 0
        /\ messages_to_flush[t][1] \notin stored

\* --- steps of the executor, seen from the states before and after
\* the flush of task t ends because _perform_bulk_insert raised
FlushRaised(t) ==
    /\ pc[t] = "insert"
    /\ pc'[t] \notin {"insert", "attempt"}
    /\ stats'.successful_flushes = stats.successful_flushes

\* task t calls _perform_bulk_insert for a non-empty snapshot
ExecutorInvoked(t) ==
    \/ pc[t] = "attempt" /\ pc'[t] # "attempt"
    \/ pc[t] = "flush" /\ HasLock(t) /\ messages # << >> /\ pc'[t] # "flush"
    \/ /\ t = "shutdown"
       /\ pc[t] = "running" /\ LockFree /\ messages # << >>
       /\ pc'[t] # "running"

\* the breaker is OPEN and at most reset_timeout seconds have passed
BreakerRefuses == cb.is_open /\ cb.since_failure <= ResetTimeout

\* the breaker is OPEN and the cooldown has elapsed
BreakerCooledDown == cb.is_open /\ cb.since_failure > ResetTimeout

\* what the scheduler makes of the batch size flush left behind
AfterTick(t, bs) ==
    IF t = "sched" /\ stats'.successful_flushes > GrowAfter
    THEN (IF bs + GrowStep > MaxBatchSize THEN MaxBatchSize ELSE bs + GrowStep)
    ELSE bs

\* C4: a flush whose executor raised (its attempts failed) puts every record
\* of the snapshot back into the pending list, counts exactly one failed flush
\* and sets batch_size to max(10, batch_size div 2).
C4_FailedFlushRestores ==
    [][ \A t \in Tasks : FlushRaised(t) =>
          /\ messages' = messages \o messages_to_flush[t]
          /\ stats.failed_flushes < MaxCount
               => stats'.failed_flushes = stats.failed_flushes + 1
          /\ batch_size' = AfterTick(t, IF batch_size \div 2 < MinBatchSize
                                        THEN MinBatchSize
                                        ELSE batch_size \div 2) ]_vars

\* both attempts of one flush just failed and batch_size 50 was halved (the
\* scheduler, whose flush it was, then added its 5)
C4_Witness ==
    /\ stats.failed_flushes = 1
    /\ stats.circuit_breaker_trips = 2
    /\ cb.failure_count = 2
    /\ cb.since_failure = 0
    /\ faults = 2
    /\ batch_size = 30
    /\ Len(messages) = 1
    /\ pc["sched"] = "sleep"

\* C6: an add_message call that leaves the pending list shorter than
\* batch_size appends its record and nothing else: no flush is entered and no
\* insert is issued; as long as no flush has taken a snapshot the pending list
\* holds every record added.
C6_AddBelowBatchSize ==
    /\ []( (stored = {} /\ \A t \in Tasks : messages_to_flush[t] = << >>)
             => Len(messages) = stats.total_messages )
    /\ [][ ( /\ stats'.total_messages = stats.total_messages + 1
             /\ Len(messages') < batch_size )
           => /\ messages' = Append(messages, stats'.total_messages)
              /\ stored' = stored
              /\ messages_to_flush' = messages_to_flush
              /\ \A t \in Tasks :
                   pc'[t] \in {"flush", "insert", "attempt"} => pc'[t] = pc[t]
       ]_vars

\* nine records were added and none was handed to the store
C6_Witness ==
    /\ stats.total_messages = InitBatchSize - 1
    /\ Len(messages) = InitBatchSize - 1
    /\ stored = {}
    /\ \A t \in Tasks : pc[t] \notin {"flush", "insert", "attempt"}

\* C7: batch_size stays within [10, 50].
C7_BatchSizeInRange ==
    batch_size >= MinBatchSize /\ batch_size <= MaxBatchSize

\* the batch size is at its ceiling after failed and successful flushes
C7_Witness ==
    /\ batch_size = MaxBatchSize
    /\ stats.failed_flushes > 0
    /\ stats.successful_flushes > GrowAfter

\* C8: the breaker opens on the 3rd consecutive failure and on no other step,
\* a success restarts the count, and while it is OPEN and no more than 60 s
\* have passed since the last failure no caller of can_proceed() is let
\* through: the scheduler stays asleep and no executor issues an insert.
C8_OpensOnThirdFailure ==
    [][ /\ cb'.failure_count # cb.failure_count
          => \/ cb'.failure_count = cb.failure_count + 1
             \/ cb'.failure_count = 0
        /\ (~cb.is_open /\ cb'.is_open)
          => /\ cb.failure_count = FailureThreshold - 1
             /\ cb'.failure_count = FailureThreshold
        /\ cb'.failure_count = FailureThreshold => cb'.is_open
        /\ cb'.failure_count < FailureThreshold => ~cb'.is_open
        /\ stats'.successful_flushes # stats.successful_flushes
          => cb'.failure_count = 0 /\ ~cb'.is_open
        /\ BreakerRefuses
          => /\ \A t \in Tasks : pc'[t] = "insert" => pc[t] = "insert"
             /\ pc["sched"] = "sleep" => pc'["sched"] = "sleep"
      ]_vars

\* the breaker is OPEN, 60 s after the third failure, with records pending
C8_Witness ==
    /\ cb.is_open
    /\ cb.failure_count = FailureThreshold
    /\ cb.since_failure = ResetTimeout
    /\ messages # << >>
    /\ pc["sched"] = "sleep"

\* C9: once the cooldown has elapsed on an OPEN breaker every caller of
\* can_proceed() is let through, whatever failure_count is: the executor
\* issues its insert, the scheduler enters flush, and the breaker is CLOSED
\* with failure_count 0 afterwards, so that the scheduler is let through as
\* well while the insert of the first caller is still in flight.
C9_AllCallersProceed ==
    /\ [][ BreakerCooledDown
             => \A t \in Tasks : ExecutorInvoked(t)
                  => /\ pc'[t] = "insert"
                     /\ ~cb'.is_open
                     /\ cb'.failure_count = 0 ]_vars
    /\ []( (BreakerCooledDown /\ pc["sched"] = "sleep" /\ Alive)
             => IF LockFree
                THEN messages # << >>
                       => ENABLED (SchedTick /\ pc'["sched"] = "insert")
                ELSE ENABLED (SchedTick /\ pc'["sched"] = "flush") )
    /\ []( ( /\ ~cb.is_open
             /\ pc["sched"] = "sleep" /\ Alive
             /\ \E t \in Tasks : pc[t] = "insert" )
             => ENABLED (SchedTick /\ pc'["sched"] = "flush") )

\* the cooldown has elapsed on the OPEN breaker and two callers, the scheduler
\* and the final flush of the shutdown, are about to ask
C9_Witness ==
    /\ BreakerCooledDown
    /\ messages # << >>
    /\ pc["sched"] = "sleep"
    /\ pc["shutdown"] = "running"

\* C10: an executor invoked while the breaker is OPEN and the cooldown has not
\* elapsed issues no insert; its flush ends as a failed flush with every
\* snapshot record back in the pending list, and the breaker (failure_count,
\* last_failure_time, open flag) is left as it was.
C10_LoadShed ==
    [][ BreakerRefuses
          => \A t \in Tasks : ExecutorInvoked(t)
               => /\ pc'[t] \notin {"insert", "attempt"}
                  /\ stored' = stored
                  /\ faults' = faults
                  /\ messages' = messages \o messages_to_flush[t]
                  /\ messages_to_flush'[t] = << >>
                  /\ cb' = cb
                  /\ stats'.successful_flushes = stats.successful_flushes
                  /\ stats.failed_flushes < MaxCount
                       => stats'.failed_flushes = stats.failed_flushes + 1
      ]_vars

\* the final flush of the shutdown found the breaker OPEN, some time after the
\* last failure, and ended with its records back in the pending list
C10_Witness ==
    /\ pc["shutdown"] = "done"
    /\ cb.is_open
    /\ cb.since_failure > 0
    /\ cb.since_failure <= ResetTimeout
    /\ messages # << >>

\* C11: while the process is alive the periodic flush loop keeps making
\* progress: it comes back to its sleep again and again, and a non-empty
\* pending list shorter than batch_size is handed to the executor (the store
\* is healthy, so the breaker always permits).
C11_PeriodicFlushProgress ==
    /\ []<>(pc["sched"] = "sleep" \/ ~Alive)
    /\ (messages # << >> /\ Len(messages) < batch_size)
          ~> ((\E t \in Tasks : pc[t] = "insert") \/ messages = << >> \/ ~Alive)

\* the body of flush() is run by task t while the pending list is empty
FlushOfEmpty(t) ==
    /\ messages = << >>
    /\ \/ FlushEnter(t)
       \/ t = "sched" /\ SchedTick /\ LockFree /\ ~BreakerRefuses
       \/ t = "shutdown" /\ ShutdownBegin /\ LockFree

\* C12: flushing an empty buffer is a no-op: no insert is issued and the
\* pending list, batch_size, last_flush, every stats counter and the breaker
\* are unchanged (the scheduler, around its call of flush, still resets a
\* cooled-down breaker in can_proceed() and then applies its batch growth).
C12_EmptyFlushNoOp ==
    [][ \A t \in Tasks : FlushOfEmpty(t) =>
          /\ messages' = << >>
          /\ stats' = stats
          /\ last_flush' = last_flush
          /\ stored' = stored
          /\ faults' = faults
          /\ messages_to_flush' = messages_to_flush
          /\ \A u \in Tasks : pc'[u] \in {"insert", "attempt"} => pc'[u] = pc[u]
          /\ batch_size' = AfterTick(t, batch_size)
          /\ cb'.since_failure = cb.since_failure
          /\ IF t = "sched" /\ pc[t] = "sleep" /\ BreakerCooledDown
             THEN cb'.failure_count = 0 /\ ~cb'.is_open
             ELSE cb' = cb ]_vars

\* the final flush of the shutdown ran on a buffer that never held a record
C12_Witness ==
    /\ pc["shutdown"] = "done"
    /\ stats.total_messages = 0
    /\ messages = << >>
    /\ stored = {}

\* --- the rooms of a message, as the claims state them
\* the rooms the last step emitted event ev to
Received(ev) == { e.room : e \in { x \in emitted : x.ev = ev } }

\* the scope rooms of message m: the user rooms of sender and recipient of a
\* direct message, the room of the group of a group message
ScopeRooms(m) ==
    IF m.type = "direct"
    THEN { << "user", m.from_user_id >>, << "user", m.to_user_id >> }
    ELSE { << "group", m.group_id >> }

\* C13: a direct message is broadcast to exactly the two user rooms of its
\* sender and its recipient, a group message to exactly the room of its
\* group, and no step other than an accepted send emits a message event.
C13_MessageRooms ==
    [][ /\ \A h \in Handlers, u \in Users, to \in Users \cup Groups :
             \A type \in {"direct", "group"} :
               ( /\ SendRequest(h, u, type, to)
                 /\ stats'.total_messages # stats.total_messages )
               => Received("message")' =
                    IF type = "direct"
                    THEN { << "user", u >>, << "user", to >> }
                    ELSE { << "group", to >> }
        /\ ( /\ stats'.total_messages = stats.total_messages
             /\ emitted' # emitted )
           => Received("message")' = {} ]_vars

\* a direct message between two users was just emitted to their two rooms
C13_Witness ==
    \E id \in 1..MaxChat :
        /\ doc[id] # NoDoc
        /\ doc[id].type = "direct"
        /\ doc[id].from_user_id # doc[id].to_user_id
        /\ Received("message") = { << "user", doc[id].from_user_id >>,
                                    << "user", doc[id].to_user_id >> }

\* an edit_message request of a user who is not the sender of the persisted
\* message is rejected: nothing is written, nothing is broadcast and the
\* requesting session alone gets an error event
EditRejected ==
    \A h \in Handlers, u \in Users, id \in 1..MaxChat, c \in EditContents :
        ( /\ EditRequest(h, u, id, c)
          /\ id \in stored
          /\ doc[id].from_user_id # u )
        => /\ doc' = doc
           /\ stored' = stored
           /\ pc'[h] = "idle"
           /\ Received("message_update")' = {}
           /\ Received("error")' = { << "sid", h >> }
           /\ \A e \in emitted' : e.ev = "error"

\* the content of a persisted message changes only in the update of an
\* edit_message request of its sender, and becomes the content of that request
ContentChangedBySender ==
    \A id \in 1..MaxChat :
        (id \in stored /\ id \in stored' /\ doc'[id].content # doc[id].content)
        => \E h \in Handlers :
             /\ pc[h] = "edit_message"
             /\ pc'[h] = "idle"
             /\ req[h].id = id
             /\ req[h].user = doc[id].from_user_id
             /\ doc'[id].content = req[h].new_content

\* C14 as stated: an edit of a non-sender is rejected, and every edit of the
\* sender changes the stored content and is broadcast to the scope rooms of
\* the message.
C14_EditOwnerOnly ==
    [][ /\ EditRejected
        /\ ContentChangedBySender
        /\ \A h \in Handlers : EditUpdate(h) =>
              /\ req[h].id \in stored'
              /\ doc'[req[h].id].content = req[h].new_content
              /\ Received("message_update")' = ScopeRooms(req[h].message)
      ]_vars

\* C14 amended: an edit of a non-sender is rejected; an edit of the sender
\* sets the content of the message if it is still stored, and is broadcast to
\* the scope rooms of the message exactly when the update modified the
\* document (the message is still stored and its content was different).
C14_EditOwnerOnlyIfModified ==
    [][ /\ EditRejected
        /\ ContentChangedBySender
        /\ \A h \in Handlers : EditUpdate(h) =>
              LET id == req[h].id
              IN /\ stored' = stored
                 /\ IF id \in stored
                    THEN doc' = [ doc EXCEPT ![id].content = req[h].new_content ]
                    ELSE doc' = doc
                 /\ Received("message_update")' =
                      IF id \in stored /\ doc[id].content # req[h].new_content
                      THEN ScopeRooms(req[h].message)
                      ELSE {}
      ]_vars

\* a non-sender was just refused the edit of a message that its sender had
\* edited before
C14_Witness ==
    \E id \in stored, h \in Handlers :
        /\ doc[id].content \in EditContents
        /\ emitted = { [ ev |-> "error",
                         type |-> "Not authorized to edit this message",
                         room |-> << "sid", h >>, id |-> id ] }

DeleteForMeApplied(h) ==
    /\ DeleteApply(h) \/ RestDeleteApply(h)
    /\ req[h].delete_for = "me"

C17_ReadByIdempotent ==
    [][ /\ \A h \in Handlers, u \in Users, id \in 1..MaxChat :
             (MarkReadRequest(h, u, id) /\ id \in stored)
             => /\ doc'[id].read_by[u] = 1
                /\ \A v \in Users \ { u } :
                     doc'[id].read_by[v] = doc[id].read_by[v]
        /\ \A id \in stored', v \in Users : doc'[id].read_by[v] <= 1
      ]_vars

\* the sender of a group message, in read_by since the send, has marked it
\* read
C17_Witness ==
    \E h \in Handlers :
        /\ pc[h] = "mark_read"
        /\ req[h].id \in stored
        /\ doc[req[h].id].type = "group"
        /\ req[h].user = doc[req[h].id].from_user_id
        /\ doc[req[h].id].read_by[req[h].user] = 1

\* C18: mark_read sets status to "read" on a direct message only; on a group
\* message it adds the reader to read_by and leaves status as it was.  The
\* receipt goes to the sender's room (direct) or to the group room (group).
C18_ReadStatusDirectOnly ==
    [][ /\ \A h \in Handlers, u \in Users, id \in 1..MaxChat :
             (MarkReadRequest(h, u, id) /\ id \in stored)
             => /\ doc'[id].read_by[u] >= 1
                /\ doc'[id].status = IF doc[id].type = "direct" THEN "read"
                                     ELSE doc[id].status
        /\ \A h \in Handlers :
             (MarkReadNotify(h) /\ req[h].id \in stored)
             => Received("message_update")' =
                  IF doc[req[h].id].type = "direct"
                  THEN { << "user", doc[req[h].id].from_user_id >> }
                  ELSE { << "group", doc[req[h].id].group_id >> }
      ]_vars

C20_ConcurrentMutations ==
    [][ /\ \A id \in 1..MaxChat, u \in Users :
             (id \in stored /\ id \in stored')
             => /\ InList(u, doc[id].read_by) => InList(u, doc'[id].read_by)
                /\ InList(u, doc[id].deleted_for)
                     => InList(u, doc'[id].deleted_for)
        /\ \A h \in Handlers, u \in Users, id \in 1..MaxChat :
             (MarkReadRequest(h, u, id) /\ id \in stored)
             => InList(u, doc'[id].read_by)
        /\ \A h \in Handlers :
             ( /\ DeleteApply(h)
               /\ req[h].delete_for = "me"
               /\ req[h].id \in stored )
             => InList(req[h].user, doc'[req[h].id].deleted_for)
        /\ \A h \in Handlers :
             (EditUpdate(h) /\ req[h].id \in stored)
             => doc' = [ doc EXCEPT ![req[h].id].content = req[h].new_content ]
        /\ \A id \in stored' :
             doc'[id].content \in { SentContent } \cup EditContents
        /\ \A id \in AddedRecords :
             (id \notin stored /\ Occurrences(id) = 0)
             => id \notin stored' /\ doc'[id] = NoDoc
      ]_vars

\* two read receipts of different users for the same message have both been
\* applied before either handler went on
C20_Witness ==
    \E id \in stored :
        /\ pc["h1"] = "mark_read" /\ pc["h2"] = "mark_read"
        /\ req["h1"].id = id /\ req["h2"].id = id
        /\ req["h1"].user # req["h2"].user
        /\ InList(req["h1"].user, doc[id].read_by)
        /\ InList(req["h2"].user, doc[id].read_by)
        /\ doc[id].from_user_id \notin { req["h1"].user, req["h2"].user }

\* task t is inside the snapshot / insert / requeue section of flush()
InFlight(t) ==
    messages_to_flush[t] # << >> \/ pc[t] \in {"insert", "attempt"}

\* C22: at most one flush is in flight at any instant, and it is the flush of
\* the task that holds the lock.
C22_OneFlushInFlight ==
    /\ Cardinality({ t \in Tasks : InFlight(t) }) <= 1
    /\ \A t \in Tasks : InFlight(t) => lock_holder = t

\* the scheduler's flush is in flight while the final flush of the shutdown
\* waits for the lock
C22_Witness ==
    /\ pc["sched"] = "insert"
    /\ pc["shutdown"] = "flush"
    /\ InSeq("shutdown", lock_waiters)

\* the records added after every record of the snapshot snap
AddedSince(snap) ==
    { i \in 1..stats'.total_messages : \A k \in 1..Len(snap) : i > snap[k] }

\* the flush of task t returns after its executor ran
FlushEnds(t) ==
    /\ pc[t] \in {"insert", "attempt"}
    /\ pc'[t] \notin {"insert", "attempt"}

\* C23: a record whose add_message is called while a flush is in progress is
\* not part of the snapshot and is not lost: the pending list and a snapshot
\* share no record; when a flush ends successfully the pending list holds
\* exactly the records added since the snapshot, when it ends in failure the
\* snapshot records and exactly those; and the add that waited appends its
\* record to that list.
C23_AddsDuringFlush ==
    /\ [](\A t \in Tasks : Range(messages) \cap Range(messages_to_flush[t]) = {})
    /\ [][
            /\ \A t \in Tasks : FlushEnds(t) =>
                 LET snap == messages_to_flush[t]
                 IN IF stats'.successful_flushes # stats.successful_flushes
                    THEN /\ Range(messages') = AddedSince(snap)
                         /\ Len(messages') = Cardinality(AddedSince(snap))
                    ELSE /\ Range(messages') = Range(snap) \cup AddedSince(snap)
                         /\ Len(messages') =
                              Len(snap) + Cardinality(AddedSince(snap))
            /\ \A h \in Handlers : AddMessage(h) =>
                 /\ messages' = Append(messages, stats'.total_messages)
                 /\ \A t \in Tasks :
                      stats'.total_messages \notin Range(messages_to_flush'[t])
          ]_vars

\* a send_message called add_message while the scheduler's flush was in
\* flight: its record is not yet in the pending list and not in the snapshot
C23_Witness ==
    \E h \in Handlers :
        /\ pc[h] = "add"
        /\ pc["sched"] = "insert"
        /\ messages_to_flush["sched"] # << >>
        /\ messages = << >>

\* the attempt of task t fails and backoff will try again
RetriedFailure(t) == pc[t] = "insert" /\ pc'[t] = "attempt"

\* C25: the breaker counts one failure per flush that failed for good: an
\* attempt that fails and is retried leaves failure_count alone, the failure
\* that ends the flush adds exactly 1, and a flush that succeeds on its retry
\* leaves failure_count at 0.
C25_OneFailurePerFlush ==
    [][ \A t \in Tasks :
          /\ RetriedFailure(t) => cb'.failure_count = cb.failure_count
          /\ FlushRaised(t) => cb'.failure_count = cb.failure_count + 1
          /\ ( /\ pc[t] = "insert"
               /\ tries[t] = MaxTries
               /\ stats'.successful_flushes # stats.successful_flushes )
             => cb'.failure_count = 0 ]_vars

\* C26: a flush makes at most 2 insert attempts; the second one follows a
\* first one that raised a transient-class error; an error of another class
\* ends the flush without a retry and the flush counts as failed.
C26_AtMostTwoAttempts ==
    /\ [](\A t \in Tasks : tries[t] <= 2)
    /\ [][ \A t \in Tasks :
             /\ RetriedFailure(t) =>
                  /\ tries[t] = 1
                  /\ tries'[t] = 2
                  /\ Raise(t, "transient")
             /\ (pc[t] = "insert" /\ faults' # faults /\ Raise(t, "other")) =>
                  /\ FlushRaised(t)
                  /\ messages' = messages \o messages_to_flush[t]
                  /\ stats.failed_flushes < MaxCount
                       => stats'.failed_flushes = stats.failed_flushes + 1
         ]_vars

\* one insert_many failed and the flush ended without a second attempt
C26_Witness ==
    /\ faults = 1
    /\ stats.circuit_breaker_trips = 1
    /\ stats.failed_flushes = 1
    /\ cb.failure_count = 1
    /\ messages # << >>
    /\ \A t \in Tasks : tries[t] = 0

\* can_proceed() of an OPEN breaker whose cooldown has elapsed lets the
\* executor of task t issue its insert_many: the probe
ProbeAdmitted(t) ==
    /\ BreakerCooledDown
    /\ pc[t] # "insert"
    /\ pc'[t] = "insert"

\* C27: the attempt admitted after the cooldown is a single probe: from the
\* moment it is admitted, one failure makes the breaker OPEN again.
C27_FailedProbeReopens ==
    [][ \A t \in Tasks : ProbeAdmitted(t) => RecordFailure(cb').is_open ]_vars

\* C28: failure_count and the open flag change only when an insert attempt
\* ends, by record_success or record_failure; no other step, can_proceed()
\* included, changes them.
C28_BreakerFrame ==
    [][ (cb'.failure_count # cb.failure_count \/ cb'.is_open # cb.is_open)
          => \E t \in Tasks :
                /\ pc[t] = "insert"
                /\ cb' \in {RecordFailure(cb), RecordSuccess(cb)} ]_vars

\* the flush that the scheduler called on its tick returns in this step
TickFlushReturns ==
    \/ SchedTick /\ CanProceed(cb) /\ pc'["sched"] = "sleep"
    \/ pc["sched"] \in {"flush", "insert", "attempt"} /\ pc'["sched"] = "sleep"

\* C29: on a tick that the breaker refuses, and while its flush has not
\* returned, the scheduler leaves batch_size alone; when the flush of a tick
\* returns, the scheduler adds 5 (never going above 50) if successful_flushes
\* is above 5 and adds nothing otherwise, to the value that flush left
\* behind (halved by flush itself if the flush raised).
C29_SchedulerGrowth ==
    [][ /\ (SchedTick /\ ~TickFlushReturns) => batch_size' = batch_size
        /\ TickFlushReturns =>
             LET base == IF FlushRaised("sched")
                         THEN (IF batch_size \div 2 < 10
                               THEN 10 ELSE batch_size \div 2)
                         ELSE batch_size
             IN /\ stats'.successful_flushes <= 5 => batch_size' = base
                /\ stats'.successful_flushes > 5 =>
                     batch_size' = (IF base + 5 > 50 THEN 50 ELSE base + 5)
      ]_vars

\* the sixth successful flush was the scheduler's and made it add 5 to the
\* initial batch size
C29_Witness ==
    /\ stats.successful_flushes = 6
    /\ batch_size = InitBatchSize + GrowStep
    /\ pc["sched"] = "sleep"
    /\ last_flush = 6

\* C30: batch_size grows only in a step in which a flush of the scheduler
\* succeeds.
C30_GrowOnlyOnSuccess ==
    [][ batch_size' > batch_size =>
          /\ pc["sched"] = "insert"
          /\ stats'.successful_flushes = stats.successful_flushes + 1 ]_vars

\* C24: a read of the statistics acquires the buffer lock: get_stats runs only
\* while no task holds the lock, so that no flush is in flight and the size it
\* reports accounts for every record that is not stored yet.
C24_StatsUnderLock ==
    [][ \A h \in Handlers : MessageBufferHealth(h) =>
          /\ LockFree
          /\ \A t \in Tasks : ~InFlight(t) ]_vars

\* C21: a group is deleted only by a delete_group request of its creator, and
\* a member leaves the member set only by a remove_from_group request made
\* by the creator or by that member.
C21_CreatorOnly ==
    [][ \A g \in Groups : groups[g] # NoDoc =>
          /\ groups'[g] = NoDoc =>
                \E h \in Handlers : /\ DeleteGroupApply(h)
                                    /\ req[h].group_id = g
                                    /\ req[h].user = groups[g].created_by
          /\ groups'[g] # NoDoc =>
                \A u \in groups[g].member_ids \ groups'[g].member_ids :
                    \E h \in Handlers :
                        /\ RemoveApply(h)
                        /\ req[h].group_id = g
                        /\ req[h].user_id = u
                        /\ req[h].admin_id \in {groups[g].created_by, u}
      ]_vars

\* the records of the snapshot of task t at the positions from..to
SnapshotPart(t, from, to) ==
    { messages_to_flush[t][k] :
        k \in from..(IF to < Len(messages_to_flush[t])
                     THEN to ELSE Len(messages_to_flush[t])) }

\* C31: the insert_many calls of a flush take the snapshot five records at a
\* time and in order: the records before the chunk in flight were submitted
\* and are stored, and what an insert_many adds to the store lies within the
\* five records after them.  While no insert has failed no record is
\* submitted twice: neither the chunk in flight nor the records after it nor
\* the pending records are in the store.  A record that is submitted although
\* it is stored is submitted by a retry or after a flush has failed.
C31_SubmittedOnce ==
    /\ [](\A t \in Tasks : pc[t] = "insert" =>
            /\ chunk_i[t] < Len(messages_to_flush[t])
            /\ SnapshotPart(t, 1, chunk_i[t]) \subseteq stored
            /\ faults = 0 =>
                 /\ SnapshotPart(t, chunk_i[t] + 1, Len(messages_to_flush[t]))
                      \cap stored = {}
                 /\ Range(messages) \cap stored = {}
            /\ SnapshotPart(t, chunk_i[t] + 1, chunk_i[t] + 5) \cap stored # {}
                 => tries[t] = 2 \/ stats.failed_flushes > 0)
    /\ [][ \A t \in Tasks : pc[t] = "insert" =>
             /\ stored' \ stored
                  \subseteq SnapshotPart(t, chunk_i[t] + 1, chunk_i[t] + 5)
             /\ (faults' = 0 /\ stored' # stored) =>
                  stored' \ stored =
                      SnapshotPart(t, chunk_i[t] + 1, chunk_i[t] + 5)
             /\ (pc'[t] = "insert" /\ chunk_i'[t] # chunk_i[t]) =>
                  /\ chunk_i'[t] = chunk_i[t] + 5
                  /\ SnapshotPart(t, 1, chunk_i'[t]) \subseteq stored'
         ]_vars

\* no insert has failed, the first five records of a snapshot are stored and
\* the insert_many of its second chunk is in flight
C31_Witness ==
    \E t \in Tasks :
        /\ pc[t] = "insert"
        /\ chunk_i[t] = 5
        /\ faults = 0
        /\ Len(messages_to_flush[t]) > 5

\* C32: a record that is not stored and waits, pending or in a snapshot, next
\* to a record of its snapshot that is stored already, is eventually stored
\* (unless the server shuts down first).
C32_PartialEventuallyStored ==
    \A i \in 1..MaxRequests :
        ( /\ i \notin stored
          /\ \/ i \in Range(messages) /\ Range(messages) \cap stored # {}
             \/ \E t \in Tasks :
                   /\ i \in Range(messages_to_flush[t])
                   /\ Range(messages_to_flush[t]) \cap stored # {} )
        ~> (i \in stored \/ pc["shutdown"] # "running")

\* C33: once the final flush of the lifespan has returned, the pending list
\* is empty and every record that was added is in the store.
C33_ShutdownPersistsAll ==
    pc["shutdown"] = "done" =>
        /\ messages = << >>
        /\ AddedRecords \subseteq stored

\* C34: a mark_read, edit_message or delete_message that carries the id of
\* the live payload of a record that is stored finds that record: edit and
\* delete do not answer "Message not found", mark_read adds the reader to the
\* record's read_by.
C34_LiveIdFindsRecord ==
    [][ \A h \in Handlers, u \in Users, n \in broadcast \cap stored :
          /\ \A c \in EditContents :
                EditRequest(h, u, MessageId(n), c)
                  => \A e \in emitted' : e.type # "Message not found"
          /\ \A delete_for \in {"me", "everyone"} :
                DeleteRequest(h, u, MessageId(n), delete_for)
                  => \A e \in emitted' : e.type # "Message not found"
          /\ MarkReadRequest(h, u, MessageId(n))
                => InList(u, doc'[n].read_by) ]_vars

\* C35: a session enters the room of a group only while its user is a member
\* of the group, and a message emitted to the room of a group is delivered
\* to sessions of current members only.
C35_GroupRoomMembersOnly ==
    [][ \A g \in Groups :
          /\ \A u \in in_room'[g] \ in_room[g] : IsMember(u, FindGroup(g))
          /\ ( /\ stats'.total_messages # stats.total_messages
               /\ \E e \in emitted' :
                     e.ev = "message" /\ e.room = GroupRoom(g) )
             => \A u \in in_room[g] : IsMember(u, FindGroup(g)) ]_vars

\* C36: a send_message of a session without a user id, or of a group message
\* whose sender is not in the member_ids of an existing target group, changes
\* neither the buffer nor the set of broadcast records and emits nothing;
\* and every record that is added or broadcast comes from a session with a
\* user id and, if it is a group message, from a member of its group.
C36_DroppedSends ==
    [][ /\ \A h \in Handlers, u \in Users \cup {None},
              type \in {"direct", "group"}, to \in Users \cup Groups :
             ( /\ SendRequest(h, u, type, to)
               /\ \/ u = None
                  \/ /\ type = "group"
                     /\ \/ groups[to] = NoDoc
                        \/ u \notin groups[to].member_ids )
             => /\ messages' = messages
                /\ stats' = stats
                /\ broadcast' = broadcast
                /\ doc' = doc
                /\ emitted' = {}
        /\ ( \/ messages' # messages
             \/ broadcast' # broadcast
             \/ \E e \in emitted' \ emitted : e.ev = "message" )
           => LET m == doc'[stats'.total_messages]
              IN /\ stats'.total_messages = stats.total_messages + 1
                 /\ m.from_user_id \in Users
                 /\ m.type = "group" =>
                      /\ groups[m.group_id] # NoDoc
                      /\ m.from_user_id \in groups[m.group_id].member_ids
      ]_vars

\* C was removed from the group, its session is still in the room of the
\* group, and nothing was added or emitted: a group message of C is dropped
C36_Witness ==
    /\ groups["G"] # NoDoc
    /\ "C" \notin groups["G"].member_ids
    /\ "C" \in in_room["G"]
    /\ pc["h1"] = "idle"
    /\ stats.total_messages = 0
    /\ emitted = {}

\* C37: the breaker is OPEN exactly when failure_count is at least 3, and a
\* breaker that has just been closed has failure_count 0.
C37_OpenIffThreshold ==
    /\ [](cb.is_open <=> cb.failure_count >= 3)
    /\ [][ (cb.is_open /\ ~cb'.is_open) => cb'.failure_count = 0 ]_vars

\* three inserts failed and none ever succeeded, so the breaker was OPEN; it
\* is CLOSED with failure_count 0: can_proceed() closed it after the cooldown
C37_Witness ==
    /\ faults = 3
    /\ stats.successful_flushes = 0
    /\ stored = {}
    /\ ~cb.is_open
    /\ cb.failure_count = 0

\* C38: the pending list is in the order of the add_message calls: no record
\* stands behind a record that was added after it.
C38_PendingInArrivalOrder ==
    \A i, j \in 1..Len(messages) : i < j => messages[i] < messages[j]

\* a flush failed with nothing inserted, its snapshot was put back, and the
\* pending list holds three records
C38_Witness ==
    /\ stats.failed_flushes = 1
    /\ faults = 1
    /\ stored = {}
    /\ messages = << 1, 2, 3 >>
    /\ \A t \in Tasks : messages_to_flush[t] = << >>

====
